---- MODULE Spec2Model ----
(***************************************************************************)
(* Model of the receipt validation engine, validate_receipt, of            *)
(* src/validation_ui.py, and of the collaborator it queries.               *)
(*                                                                         *)
(* Values of the loosely typed record are tagged: [t, v, s] with t the     *)
(* Python type ("absent" for a key the dict does not have, "None", "int",  *)
(* "str", "list", "bigint"), v the value of an int and s the characters of *)
(* a str.  Strings are sequences of one-character strings, so that the     *)
(* parsers (float, strptime) are computed character by character.          *)
(*                                                                         *)
(* A float is [k, v]: k = "fin" with the integer value v, or "nan", "inf", *)
(* "ninf".  Every finite float of the model is integer valued, so the      *)
(* subtraction of the code is exact and the rate tax / subtotal is         *)
(* compared as a rational, in hundredths.                                  *)
(***************************************************************************)
EXTENDS Integers, Sequences, FiniteSets, TLC

\* ------------------------------------------------------------------ bounds
\* amounts of the inputs: -1 .. MaxAmt, and the tolerance cases of AmountInts
MaxAmt == 2
\* taxes of the inputs: -1 .. MaxTax, and the tolerance cases of TaxInts
MaxTax == 1

\* ------------------------------------------------------- program constants
\* EXPECTED_TAX_RATE = 0.08 and TOLERANCE = 0.05, in hundredths
EXPECTED_TAX_RATE == 8
TOLERANCE == 5

\* ------------------------------------------------------------------ values
Absent == [t |-> "absent", v |-> 0, s |-> <<>>]
None == [t |-> "None", v |-> 0, s |-> <<>>]
PyInt(n) == [t |-> "int", v |-> n, s |-> <<>>]
PyStr(chars) == [t |-> "str", v |-> 0, s |-> chars]
PyList == [t |-> "list", v |-> 0, s |-> <<>>]
\* an int above the largest double, such as 10**400
PyBigInt == [t |-> "bigint", v |-> 0, s |-> <<>>]

Fin(n) == [k |-> "fin", v |-> n]
NaN == [k |-> "nan", v |-> 0]
Inf == [k |-> "inf", v |-> 0]
NInf == [k |-> "ninf", v |-> 0]

Digits == <<"0", "1", "2", "3", "4", "5", "6", "7", "8", "9">>
IsDigit(c) == \E i \in 1..10 : Digits[i] = c
DigitVal(c) == (CHOOSE i \in 1..10 : Digits[i] = c) - 1
IsSpace(c) == c = " "

\* dict.get: the value of the key, None when the dict does not have the key
Get(d, f) == IF d[f].t = "absent" THEN None ELSE d[f]

\* ------------------------------------------------------------ float(value)
RECURSIVE LStrip(_)
LStrip(chars) ==
    IF chars # <<>> /\ IsSpace(Head(chars)) THEN LStrip(Tail(chars)) ELSE chars

RECURSIVE RStrip(_)
RStrip(chars) ==
    IF chars # <<>> /\ IsSpace(chars[Len(chars)])
    THEN RStrip(SubSeq(chars, 1, Len(chars) - 1))
    ELSE chars

Strip(chars) == RStrip(LStrip(chars))

AllDigits(chars) == chars # <<>> /\ \A i \in 1..Len(chars) : IsDigit(chars[i])

RECURSIVE DecimalValue(_)
DecimalValue(chars) ==
    IF chars = <<>> THEN 0
    ELSE 10 * DecimalValue(SubSeq(chars, 1, Len(chars) - 1))
         + DigitVal(chars[Len(chars)])

FNeg(x) ==
    CASE x.k = "fin" -> Fin(0 - x.v)
      [] x.k = "inf" -> NInf
      [] x.k = "ninf" -> Inf
      [] OTHER -> x

Ok(x) == [exc |-> "none", f |-> x]
Raise(e) == [exc |-> e, f |-> Fin(0)]

\* float of an unsigned, stripped string: decimal digits, "nan", "inf".  The
\* strings of the model have no ".", "e" or "_", the rest of the grammar.
FloatOfUnsigned(chars) ==
    CASE AllDigits(chars) -> Ok(Fin(DecimalValue(chars)))
      [] chars = <<"n", "a", "n">> -> Ok(NaN)
      [] chars = <<"i", "n", "f">> -> Ok(Inf)
      [] OTHER -> Raise("ValueError")

FloatOfStr(chars) ==
    LET body == Strip(chars) IN
    IF body # <<>> /\ Head(body) = "-"
    THEN LET r == FloatOfUnsigned(Tail(body)) IN
         IF r.exc = "none" THEN Ok(FNeg(r.f)) ELSE r
    ELSE IF body # <<>> /\ Head(body) = "+"
    THEN FloatOfUnsigned(Tail(body))
    ELSE FloatOfUnsigned(body)

\* float(x): the float, or the exception float raises
Float(x) ==
    CASE x.t = "int" -> Ok(Fin(x.v))
      [] x.t = "str" -> FloatOfStr(x.s)
      [] x.t = "bigint" -> Raise("OverflowError")
      [] OTHER -> Raise("TypeError")

\* ------------------------------------------------------- float arithmetic
\* a - b
FSub(a, b) ==
    CASE a.k = "nan" \/ b.k = "nan" -> NaN
      [] a.k = "fin" /\ b.k = "fin" -> Fin(a.v - b.v)
      [] a.k = "fin" -> FNeg(b)
      [] b.k = "fin" -> a
      [] a.k = b.k -> NaN
      [] OTHER -> a

\* a >= 0 in the place of a > 0
FPositive_OrZero(a) == (a.k = "fin" /\ a.v >= 0) \/ a.k = "inf"

\* a > 0
FPositive(a) == (a.k = "fin" /\ a.v > 0) \/ a.k = "inf"
\* a <= 0
FNonPositive(a) == (a.k = "fin" /\ a.v <= 0) \/ a.k = "ninf"
\* a == 0.0
FIsZero(a) == a.k = "fin" /\ a.v = 0

Abs(n) == IF n < 0 THEN 0 - n ELSE n

\* abs(tax / subtotal - EXPECTED_TAX_RATE) <= TOLERANCE, for a subtotal the
\* loop did not skip (not <= 0).  A nan or infinite rate compares False; a
\* finite tax over an infinite subtotal is the rate 0, off by 0.08.
WithinTolerance(tax, subtotal) ==
    /\ tax.k = "fin"
    /\ subtotal.k = "fin"
    /\ Abs(100 * tax.v - EXPECTED_TAX_RATE * subtotal.v) <= TOLERANCE * subtotal.v

\* ------------------------------- datetime.strptime(str(date), "%Y-%m-%d")
\* the characters the regular expression of the format consumes, month and
\* day: %Y is \d\d\d\d, %m is 1[0-2]|0[1-9]|[1-9], %d is
\* 3[0-1]|[1-2]\d|0[1-9]|[1-9]| [1-9]; the alternatives are tried in order.
At(chars, i) == IF i \in 1..Len(chars) THEN chars[i] ELSE ""
IsDigit19(c) == IsDigit(c) /\ c # "0"

\* length of the month at position i, the "-" after it included in the
\* match; 0 when no alternative matches
MonthLen(chars, i) ==
    CASE At(chars, i) = "1" /\ At(chars, i + 1) \in {"0", "1", "2"}
            /\ At(chars, i + 2) = "-" -> 2
      [] At(chars, i) = "0" /\ IsDigit19(At(chars, i + 1))
            /\ At(chars, i + 2) = "-" -> 2
      [] IsDigit19(At(chars, i)) /\ At(chars, i + 1) = "-" -> 1
      [] OTHER -> 0

\* length of the day at position i: the first alternative that matches
DayLen(chars, i) ==
    CASE At(chars, i) = "3" /\ At(chars, i + 1) \in {"0", "1"} -> 2
      [] At(chars, i) \in {"1", "2"} /\ IsDigit(At(chars, i + 1)) -> 2
      [] At(chars, i) = "0" /\ IsDigit19(At(chars, i + 1)) -> 2
      [] IsDigit19(At(chars, i)) -> 1
      [] At(chars, i) = " " /\ IsDigit19(At(chars, i + 1)) -> 2
      [] OTHER -> 0

IsLeap(y) == (y % 4 = 0 /\ y % 100 # 0) \/ y % 400 = 0

DaysInMonth(y, m) ==
    CASE m = 2 -> IF IsLeap(y) THEN 29 ELSE 28
      [] m \in {4, 6, 9, 11} -> 30
      [] OTHER -> 31

\* the value of a matched month or day: int() of its characters
FieldValue(chars) == DecimalValue(SelectSeq(chars, IsDigit))

\* TRUE when strptime returns a date, FALSE when it raises ValueError: the
\* format does not match, unconverted data remains, or the values are not a
\* date of the calendar (year 0, day out of range for the month)
StrptimeOk(chars) ==
    /\ \A i \in 1..4 : IsDigit(At(chars, i))
    /\ At(chars, 5) = "-"
    /\ MonthLen(chars, 6) > 0
    /\ LET ml == MonthLen(chars, 6)
           dl == DayLen(chars, 7 + ml)
           y == DecimalValue(SubSeq(chars, 1, 4))
           m == FieldValue(SubSeq(chars, 6, 5 + ml))
           d == FieldValue(SubSeq(chars, 7 + ml, 6 + ml + dl))
       IN /\ dl > 0
          /\ Len(chars) = 6 + ml + dl
          /\ y >= 1
          /\ d <= DaysInMonth(y, m)

\* ------------------------------------------------------------ the inputs
S(str) == PyStr(str)

BillIds == {S(<<"B", "1">>), S(<<"B", "2">>), None, Absent}
Vendors == {S(<<"V">>), S(<<>>), None, Absent}

DateStrings ==
    { <<"2", "0", "2", "4", "-", "0", "1", "-", "1", "5">>,
      <<"1", "5", "-", "0", "1", "-", "2", "0", "2", "4">>,
      <<"2", "0", "2", "4", "/", "0", "1", "/", "1", "5">>,
      <<"2", "0", "2", "4", "-", "1", "-", "5">>,
      <<"2", "0", "2", "4", "-", "0", "1", "-", " ", "5">>,
      <<"2", "0", "2", "4", "-", "0", "1", "-", "1", "5", " ">>,
      <<"2", "0", "2", "4", "-", "0", "1", "-", "1", "5", "T", "0", "0">>,
      <<"2", "0", "2", "3", "-", "0", "2", "-", "2", "9">>,
      <<"2", "0", "2", "4", "-", "0", "2", "-", "2", "9">>,
      <<"2", "0", "2", "4", "-", "1", "3", "-", "0", "1">>,
      <<"0", "0", "0", "0", "-", "0", "1", "-", "0", "1">>,
      <<>> }
Dates == {S(d) : d \in DateStrings} \cup {None, Absent}

AmountInts == (-1..MaxAmt) \cup {100, 103, 104, 113, 500, 1000}
TaxInts == (-1..MaxTax) \cup {3, 13, 80, 200}

NumberStrings ==
    { <<" ", "1", "0", "0", " ">>, <<"-", "5">>, <<"a", "b", "c">>, <<>>,
      <<"n", "a", "n">>, <<"i", "n", "f">> }

Amounts ==
    {PyInt(n) : n \in AmountInts} \cup {S(c) : c \in NumberStrings}
        \cup {PyList, PyBigInt, None, Absent}
Taxes ==
    {PyInt(n) : n \in TaxInts} \cup {S(c) : c \in NumberStrings}
        \cup {PyList, PyBigInt, None, Absent}

Records ==
    [bill_id : BillIds, vendor : Vendors, date : Dates,
     amount : Amounts, tax : Taxes]

\* a receipt the store may hold before the first call
StoredReceipt ==
    [bill_id |-> S(<<"B", "1">>), vendor |-> S(<<"V">>),
     date |-> S(<<"2", "0", "2", "4", "-", "0", "1", "-", "1", "5">>),
     amount |-> PyInt(1000), tax |-> PyInt(80)]

NoRecord ==
    [bill_id |-> Absent, vendor |-> Absent, date |-> Absent,
     amount |-> Absent, tax |-> Absent]

\* ---------------------------------------------------------------- state
VARIABLES
    store,           \* the persisted receipts, a sequence of records
    pc,              \* the position of the call of validate_receipt
    data,            \* its argument data
    skip_duplicate,  \* its argument skip_duplicate
    checks,          \* the dict checks, in insertion order
    passed,          \* the local passed
    amount,          \* the local amount, once coerced
    tax,             \* the local tax, once coerced
    tried,           \* the subtotals whose rate the tax loop computed
    lookups,         \* the bill ids receipt_exists was called with
    exc,             \* the exception that left the call, "none" if none
    upc,             \* the position of the script run of the user interface
    udata,           \* the record of the caller: data of render_upload_ui,
                     \* match_data of validation_ui
    exists,          \* what receipt_exists returned at line 118 of the upload
    last_receipt,    \* session_state LAST_EXTRACTED_RECEIPT, <<>> when not set
    last_report,     \* session_state LAST_VALIDATION_REPORT, <<>> when not set
    shown,           \* the last message of the script run
    uexc             \* the exception that ended the script run

\* the state of the callers, which validate_receipt does not touch
app == <<upc, udata, exists, last_receipt, last_report, shown, uexc>>

vars ==
    <<store, pc, data, skip_duplicate, checks, passed, amount, tax, tried,
      lookups, exc, upc, udata, exists, last_receipt, last_report, shown,
      uexc>>

\* an entry of checks: the check name, "pass", and the one other key of the
\* dict ("details", "missing" or "value") with its value
Check(name, pass, key, val) ==
    [name |-> name, pass |-> pass, key |-> key, val |-> val]

\* a formatted message: the literal text and the values formatted into it
Msg(text, args) == [text |-> text, args |-> args]

required == <<"bill_id", "vendor", "date", "amount", "tax">>

\* database.queries.receipt_exists: an exact match of bill_id in the store
receipt_exists(bill_id) ==
    \E i \in 1..Len(store) : store[i].bill_id = bill_id

Init ==
    /\ store \in {<<>>, <<StoredReceipt>>}
    /\ pc = "idle"
    /\ data = NoRecord
    /\ skip_duplicate = FALSE
    /\ checks = <<>>
    /\ passed = TRUE
    /\ amount = Fin(0)
    /\ tax = Fin(0)
    /\ tried = <<>>
    /\ lookups = <<>>
    /\ exc = "none"
    /\ upc = "idle"
    /\ udata = NoRecord
    /\ exists = "none"
    /\ last_receipt = <<>>
    /\ last_report = <<>>
    /\ shown = "none"
    /\ uexc = "none"

\* validate_receipt(d, skip) is called: checks = {}, passed = True
Call ==
    /\ pc = "idle"
    /\ \E d \in Records, skip \in BOOLEAN :
          /\ data' = d
          /\ skip_duplicate' = skip
    /\ checks' = <<>>
    /\ passed' = TRUE
    /\ amount' = Fin(0)
    /\ tax' = Fin(0)
    /\ tried' = <<>>
    /\ lookups' = <<>>
    /\ exc' = "none"
    /\ pc' = "required"
    /\ UNCHANGED store
    /\ UNCHANGED app

\* the list of required fields without its last name
MissingFields_WithoutTax(d) ==
    SelectSeq(SubSeq(required, 1, 4), LAMBDA f : Get(d, f).t = "None")

\* "not data.get(f)" in the place of "data.get(f) is None"
MissingFields_Falsy(d) ==
    SelectSeq(required,
              LAMBDA f : \/ Get(d, f).t = "None"
                         \/ Get(d, f) = PyStr(<<>>)
                         \/ Get(d, f) = PyInt(0))

\* [f for f in required if data.get(f) is None]
MissingFields(d) == SelectSeq(required, LAMBDA f : Get(d, f).t = "None")

\* Required Fields: the early return when a field is missing
RequiredFields ==
    /\ pc = "required"
    /\ LET missing == MissingFields(data) IN
       IF missing # <<>>
       THEN /\ checks' = Append(checks,
                   Check("required_fields", FALSE, "missing", missing))
            /\ passed' = FALSE
            /\ pc' = "done"
       ELSE /\ checks' = Append(checks,
                   Check("required_fields", TRUE, "details",
                         Msg("All required fields present", <<>>)))
            /\ passed' = passed
            /\ pc' = "date"
    /\ UNCHANGED <<store, data, skip_duplicate, amount, tax, tried, lookups, exc>>
    /\ UNCHANGED app

\* Date Format: strptime of str(date_val); any exception is a failed check
DateFormat ==
    /\ pc = "date"
    /\ LET date_val == Get(data, "date") IN
       IF date_val.t = "str" /\ StrptimeOk(date_val.s)
       THEN /\ checks' = Append(checks,
                   Check("date_format", TRUE, "details",
                         Msg("Valid date: ", <<date_val>>)))
            /\ passed' = passed
       ELSE /\ checks' = Append(checks,
                   Check("date_format", FALSE, "details",
                         Msg("Invalid date format: ", <<date_val>>)))
            /\ passed' = FALSE
    /\ pc' = "coerce_amount"
    /\ UNCHANGED <<store, data, skip_duplicate, amount, tax, tried, lookups, exc>>
    /\ UNCHANGED app

\* float(value) if value is not None else 0.0, ValueError and TypeError
\* caught as 0.0; any other exception leaves the try statement
Coerce(value) ==
    IF value.t = "None" THEN Ok(Fin(0))
    ELSE LET r == Float(value) IN
         IF r.exc \in {"ValueError", "TypeError"} THEN Ok(Fin(0)) ELSE r

CoerceAmount ==
    /\ pc = "coerce_amount"
    /\ LET r == Coerce(Get(data, "amount")) IN
       IF r.exc = "none"
       THEN /\ amount' = r.f
            /\ pc' = "coerce_tax"
            /\ exc' = exc
       ELSE /\ amount' = amount
            /\ pc' = "raised"
            /\ exc' = r.exc
    /\ UNCHANGED <<store, data, skip_duplicate, checks, passed, tax, tried,
                   lookups>>
    /\ UNCHANGED app

CoerceTax ==
    /\ pc = "coerce_tax"
    /\ LET r == Coerce(Get(data, "tax")) IN
       IF r.exc = "none"
       THEN /\ tax' = r.f
            /\ pc' = "total"
            /\ exc' = exc
       ELSE /\ tax' = tax
            /\ pc' = "raised"
            /\ exc' = r.exc
    /\ UNCHANGED <<store, data, skip_duplicate, checks, passed, amount, tried,
                   lookups>>
    /\ UNCHANGED app

\* Total Validation: amount > 0
TotalAmount ==
    /\ pc = "total"
    /\ IF FPositive(amount)
       THEN /\ checks' = Append(checks,
                   Check("total_amount", TRUE, "value", Msg("", <<amount>>)))
            /\ passed' = passed
       ELSE /\ checks' = Append(checks,
                   Check("total_amount", FALSE, "details",
                         Msg("Invalid amount value", <<>>)))
            /\ passed' = FALSE
    /\ pc' = "tax_rate"
    /\ UNCHANGED <<store, data, skip_duplicate, amount, tax, tried, lookups, exc>>
    /\ UNCHANGED app

\* the candidates in the other order
Candidates_Swapped(a, x) == <<a, FSub(a, x)>>

\* [subtotal_option_1, subtotal_option_2]: amount - tax, then amount
Candidates(a, x) == <<FSub(a, x), a>>

\* the for loop over the candidates: a subtotal <= 0 is skipped, the first
\* one whose rate is within the tolerance ends the loop.  (tax / subtotal
\* cannot raise ZeroDivisionError: a subtotal of 0 was skipped.)
RECURSIVE TaxLoop(_, _, _)
TaxLoop(x, subtotals, seen) ==
    IF subtotals = <<>>
    THEN [valid |-> FALSE, used_subtotal |-> Fin(0), tried |-> seen]
    ELSE LET subtotal == Head(subtotals) IN
         IF FNonPositive(subtotal) THEN TaxLoop(x, Tail(subtotals), seen)
         ELSE IF WithinTolerance(x, subtotal)
              THEN [valid |-> TRUE, used_subtotal |-> subtotal,
                    tried |-> Append(seen, subtotal)]
              ELSE TaxLoop(x, Tail(subtotals), Append(seen, subtotal))

\* the tax_rate entry without the branch of tax == 0.0
TaxRateCheck_NoZeroCase(a, x) ==
    LET r == TaxLoop(x, Candidates(a, x), <<>>) IN
    IF r.valid
    THEN [check |-> Check("tax_rate", TRUE, "details",
                          Msg("Tax rate OK",
                              <<<<x, r.used_subtotal>>, r.used_subtotal>>)),
          tried |-> r.tried]
    ELSE [check |-> Check("tax_rate", FALSE, "details",
                          Msg("Tax mismatch. Expected ~",
                              <<EXPECTED_TAX_RATE, x, a>>)),
          tried |-> r.tried]

\* the tax_rate entry for the coerced amount a and tax x, and the subtotals
\* tried; actual_rate is kept as the quotient <<tax, used_subtotal>>
TaxRateCheck(a, x) ==
    IF FIsZero(x)
    THEN [check |-> Check("tax_rate", TRUE, "details",
                          Msg("No tax applied", <<>>)),
          tried |-> <<>>]
    ELSE LET r == TaxLoop(x, Candidates(a, x), <<>>) IN
         IF r.valid
         THEN [check |-> Check("tax_rate", TRUE, "details",
                               Msg("Tax rate OK",
                                   <<<<x, r.used_subtotal>>, r.used_subtotal>>)),
               tried |-> r.tried]
         ELSE [check |-> Check("tax_rate", FALSE, "details",
                               Msg("Tax mismatch. Expected ~",
                                   <<EXPECTED_TAX_RATE, x, a>>)),
               tried |-> r.tried]

\* Tax Rate Validation without "passed = False" on a mismatch
TaxRate_KeepsPassed ==
    /\ pc = "tax_rate"
    /\ LET r == TaxRateCheck(amount, tax) IN
       /\ checks' = Append(checks, r.check)
       /\ tried' = r.tried
       /\ passed' = passed
    /\ pc' = "duplicate"
    /\ UNCHANGED <<store, data, skip_duplicate, amount, tax, lookups, exc>>
    /\ UNCHANGED app

\* Tax Rate Validation
TaxRate ==
    /\ pc = "tax_rate"
    /\ LET r == TaxRateCheck(amount, tax) IN
       /\ checks' = Append(checks, r.check)
       /\ tried' = r.tried
       /\ passed' = (passed /\ r.check.pass)
    /\ pc' = "duplicate"
    /\ UNCHANGED <<store, data, skip_duplicate, amount, tax, lookups, exc>>
    /\ UNCHANGED app

\* Duplicate Detection that queries the store whatever skip_duplicate is
DuplicateDetection_IgnoresSkip ==
    /\ pc = "duplicate"
    /\ lookups' = Append(lookups, Get(data, "bill_id"))
    /\ IF receipt_exists(Get(data, "bill_id"))
       THEN /\ checks' = Append(checks,
                   Check("is_duplicate", FALSE, "details",
                         Msg("Duplicate receipt found", <<>>)))
            /\ passed' = FALSE
       ELSE /\ checks' = Append(checks,
                   Check("is_duplicate", TRUE, "details",
                         Msg("No duplicate found", <<>>)))
            /\ passed' = passed
    /\ pc' = "return"
    /\ UNCHANGED <<store, data, skip_duplicate, amount, tax, tried, exc>>
    /\ UNCHANGED app

\* Duplicate Detection without "passed = False" on a duplicate
DuplicateDetection_KeepsPassed ==
    /\ pc = "duplicate"
    /\ IF ~skip_duplicate
       THEN /\ lookups' = Append(lookups, Get(data, "bill_id"))
            /\ IF receipt_exists(Get(data, "bill_id"))
               THEN checks' = Append(checks,
                           Check("is_duplicate", FALSE, "details",
                                 Msg("Duplicate receipt found", <<>>)))
               ELSE checks' = Append(checks,
                           Check("is_duplicate", TRUE, "details",
                                 Msg("No duplicate found", <<>>)))
       ELSE /\ lookups' = lookups
            /\ checks' = Append(checks,
                   Check("is_duplicate", TRUE, "details",
                         Msg("Duplicate check skipped", <<>>)))
    /\ passed' = passed
    /\ pc' = "return"
    /\ UNCHANGED <<store, data, skip_duplicate, amount, tax, tried, exc>>
    /\ UNCHANGED app

\* Duplicate Detection
DuplicateDetection ==
    /\ pc = "duplicate"
    /\ IF ~skip_duplicate
       THEN /\ lookups' = Append(lookups, Get(data, "bill_id"))
            /\ IF receipt_exists(Get(data, "bill_id"))
               THEN /\ checks' = Append(checks,
                           Check("is_duplicate", FALSE, "details",
                                 Msg("Duplicate receipt found", <<>>)))
                    /\ passed' = FALSE
               ELSE /\ checks' = Append(checks,
                           Check("is_duplicate", TRUE, "details",
                                 Msg("No duplicate found", <<>>)))
                    /\ passed' = passed
       ELSE /\ lookups' = lookups
            /\ checks' = Append(checks,
                   Check("is_duplicate", TRUE, "details",
                         Msg("Duplicate check skipped", <<>>)))
            /\ passed' = passed
    /\ pc' = "return"
    /\ UNCHANGED <<store, data, skip_duplicate, amount, tax, tried, exc>>
    /\ UNCHANGED app

\* return {"passed": passed, "checks": checks}
Return ==
    /\ pc = "return"
    /\ pc' = "done"
    /\ UNCHANGED <<store, data, skip_duplicate, checks, passed, amount, tax,
                   tried, lookups, exc>>
    /\ UNCHANGED app

Next ==
    \/ Call
    \/ RequiredFields
    \/ DateFormat
    \/ CoerceAmount
    \/ CoerceTax
    \/ TotalAmount
    \/ TaxRate
    \/ DuplicateDetection
    \/ Return

Spec == Init /\ [][Next]_vars

\* the report the call returned, once it has returned
Returned == pc = "done"
report == [passed |-> passed, checks |-> checks]

\* =============================================== the callers of the engine
\* the most receipts the store holds: no upload starts beyond it
MaxStore == 2

\* the records the extraction of an upload produces
UploadRecords ==
    [bill_id : {S(<<"B", "1">>), S(<<"B", "2">>), None},
     vendor : {S(<<"V">>)},
     date : {S(<<"2", "0", "2", "4", "-", "0", "1", "-", "1", "5">>),
             S(<<"2", "0", "2", "4", "/", "0", "1", "/", "1", "5">>)},
     amount : {PyInt(1000), PyInt(0), PyBigInt},
     tax : {PyInt(80), PyInt(200), Absent}]

\* the text typed into the "Bill ID" filter; the other filters are left empty
FilterIds == {<<>>, <<"B", "1">>, <<"B", "2">>}

\* d[k] of a dict: KeyError when the dict does not have the key
HasKey(d, k) == d[k].t # "absent"

\* round(x, 2): TypeError unless x is a number
Round2Ok(x) == x.t \in {"int", "bigint"}

\* str(x) of a bill id
StrOf(x) == IF x.t = "str" THEN x.s ELSE <<"N", "o", "n", "e">>

\* needle in haystack, of two strings
IsSubstring(needle, haystack) ==
    \E i \in 0..(Len(haystack) - Len(needle)) :
        SubSeq(haystack, i + 1, i + Len(needle)) = needle

\* float(r.get(key, 0.0)) of a stored receipt
FloatOrDefault(r, key) ==
    IF r[key].t = "absent" THEN Ok(Fin(0)) ELSE Float(r[key])

\* the loop over fetch_all_receipts(): the first receipt the filter keeps,
\* or the exception float() raises on a receipt the loop reaches
RECURSIVE FindMatch(_, _)
FindMatch(receipts, bill_id) ==
    IF receipts = <<>>
    THEN [exc |-> "none", found |-> FALSE, match |-> NoRecord]
    ELSE LET r == Head(receipts)
             r_bill_id == IF r.bill_id.t = "absent" THEN <<>>
                          ELSE StrOf(r.bill_id)
             r_amount == FloatOrDefault(r, "amount")
             r_tax == FloatOrDefault(r, "tax")
         IN IF r_amount.exc # "none"
            THEN [exc |-> r_amount.exc, found |-> FALSE, match |-> NoRecord]
            ELSE IF r_tax.exc # "none"
            THEN [exc |-> r_tax.exc, found |-> FALSE, match |-> NoRecord]
            ELSE IF bill_id # <<>> /\ ~IsSubstring(bill_id, r_bill_id)
            THEN FindMatch(Tail(receipts), bill_id)
            ELSE [exc |-> "none", found |-> TRUE, match |-> r]

\* database.queries.save_receipt: the store with the receipt added
save_receipt(d) == Append(store, d)

\* database.queries.fetch_all_receipts: the receipts of the store
fetch_all_receipts == store

\* the call validate_receipt(d, skip) of a caller: a new frame
EnterValidate(d, skip) ==
    /\ data' = d
    /\ skip_duplicate' = skip
    /\ checks' = <<>>
    /\ passed' = TRUE
    /\ amount' = Fin(0)
    /\ tax' = Fin(0)
    /\ tried' = <<>>
    /\ lookups' = <<>>
    /\ exc' = "none"
    /\ pc' = "required"

frame ==
    <<pc, data, skip_duplicate, checks, passed, amount, tax, tried, lookups,
      exc>>

\* ------------------------------------------------------ render_upload_ui
\* the button is pressed and the extraction gives data:
\* session_state["LAST_EXTRACTED_RECEIPT"] = data
UploadExtract ==
    /\ upc = "idle"
    /\ pc = "idle"
    /\ Len(store) < MaxStore
    /\ \E d \in UploadRecords : udata' = d /\ last_receipt' = <<d>>
    /\ exists' = "none"
    /\ shown' = "none"
    /\ uexc' = "none"
    /\ upc' = "u_summary"
    /\ UNCHANGED <<store, frame, last_report>>

\* the summary table: data["bill_id"], data["vendor"], data["date"],
\* round(data["tax"], 2), round(data["amount"], 2)
UploadSummary ==
    /\ upc = "u_summary"
    /\ IF \E f \in {"bill_id", "vendor", "date", "tax", "amount"} :
              ~HasKey(udata, f)
       THEN upc' = "idle" /\ uexc' = "KeyError"
       ELSE IF ~Round2Ok(udata.tax) \/ ~Round2Ok(udata.amount)
       THEN upc' = "idle" /\ uexc' = "TypeError"
       ELSE upc' = "u_duplicate" /\ uexc' = uexc
    /\ UNCHANGED <<store, frame, udata, exists, last_receipt, last_report,
                   shown>>

\* the duplicate check that skips line 120, the return
UploadDuplicateCheck_NoReturn ==
    /\ upc = "u_duplicate"
    /\ exists' = receipt_exists(udata.bill_id)
    /\ shown' = IF receipt_exists(udata.bill_id) THEN "duplicate_error"
                ELSE "no_duplicate_success"
    /\ upc' = "u_validate"
    /\ UNCHANGED <<store, frame, udata, last_receipt, last_report, uexc>>

\* DUPLICATE CHECK: a stored bill id ends the run
UploadDuplicateCheck ==
    /\ upc = "u_duplicate"
    /\ exists' = receipt_exists(udata.bill_id)
    /\ IF receipt_exists(udata.bill_id)
       THEN shown' = "duplicate_error" /\ upc' = "idle"
       ELSE shown' = "no_duplicate_success" /\ upc' = "u_validate"
    /\ UNCHANGED <<store, frame, udata, last_receipt, last_report, uexc>>

\* validation = validate_receipt(data)
UploadValidate ==
    /\ upc = "u_validate"
    /\ EnterValidate(udata, FALSE)
    /\ upc' = "u_call"
    /\ UNCHANGED <<store, udata, exists, last_receipt, last_report, shown,
                   uexc>>

\* session_state["LAST_VALIDATION_REPORT"] = validation, or the exception
\* of validate_receipt ends the run
UploadStoreReport ==
    /\ upc = "u_call"
    /\ pc \in {"done", "raised"}
    /\ IF pc = "done"
       THEN /\ last_report' = <<report>>
            /\ upc' = "u_save"
            /\ uexc' = uexc
       ELSE /\ last_report' = last_report
            /\ upc' = "idle"
            /\ uexc' = exc
    /\ pc' = "idle"
    /\ UNCHANGED <<store, data, skip_duplicate, checks, passed, amount, tax,
                   tried, lookups, exc, udata, exists, last_receipt, shown>>

\* save_receipt(data)
UploadSave ==
    /\ upc = "u_save"
    /\ store' = save_receipt(udata)
    /\ upc' = "u_message"
    /\ UNCHANGED <<frame, udata, exists, last_receipt, last_report, shown,
                   uexc>>

\* the message after validation["passed"]
UploadMessage ==
    /\ upc = "u_message"
    /\ shown' = IF last_report[1].passed THEN "validation_passed_save"
                ELSE "validation_failed"
    /\ upc' = "idle"
    /\ UNCHANGED <<store, frame, udata, exists, last_receipt, last_report,
                   uexc>>

\* -------------------------------------------------------- validation_ui
\* the message the rendering of a report ends with, or the KeyError of a key
\* the report does not have; the loop over report["results"] only displays
RenderReport(rep, ok_message, failed_message) ==
    IF "results" \notin DOMAIN rep
    THEN [exc |-> "KeyError: 'results'", shown |-> "none"]
    ELSE IF "passed" \notin DOMAIN rep
    THEN [exc |-> "KeyError: 'passed'", shown |-> "none"]
    ELSE [exc |-> "none",
          shown |-> IF rep.passed THEN ok_message ELSE failed_message]

\* CURRENT UPLOADED RECEIPT: the report of the session is rendered
ViewCurrent ==
    /\ upc = "idle"
    /\ pc = "idle"
    /\ exists' = "none"
    /\ IF last_receipt # <<>> /\ last_report # <<>>
       THEN LET r == RenderReport(last_report[1], "Receipt passed validation",
                                  "Receipt failed validation")
            IN /\ shown' = r.shown
               /\ uexc' = r.exc
               /\ upc' = IF r.exc = "none" THEN "v_stored" ELSE "idle"
       ELSE /\ shown' = "No receipt uploaded yet"
            /\ uexc' = "none"
            /\ upc' = "v_stored"
    /\ UNCHANGED <<store, frame, udata, last_receipt, last_report>>

\* "Run Validation" is not pressed: the run ends
StoredSkip ==
    /\ upc = "v_stored"
    /\ upc' = "idle"
    /\ UNCHANGED <<store, frame, udata, exists, last_receipt, last_report,
                   shown, uexc>>

\* "Run Validation": the first stored receipt the filter keeps is
\* validated with skip_duplicate = True
StoredRun ==
    /\ upc = "v_stored"
    /\ \E bill_id \in FilterIds :
          LET m == FindMatch(fetch_all_receipts, bill_id) IN
          IF m.exc # "none"
          THEN /\ uexc' = m.exc
               /\ upc' = "idle"
               /\ UNCHANGED <<frame, udata, shown>>
          ELSE IF ~m.found
          THEN /\ shown' = "No matching stored receipt found"
               /\ upc' = "idle"
               /\ UNCHANGED <<frame, udata, uexc>>
          ELSE /\ udata' = m.match
               /\ EnterValidate(m.match, TRUE)
               /\ upc' = "v_call"
               /\ UNCHANGED <<shown, uexc>>
    /\ UNCHANGED <<store, exists, last_receipt, last_report>>

\* the rendering of stored_report
StoredRender ==
    /\ upc = "v_call"
    /\ pc \in {"done", "raised"}
    /\ IF pc = "raised"
       THEN shown' = shown /\ uexc' = exc
       ELSE LET r == RenderReport(report, "Stored receipt passed validation",
                                  "Stored receipt failed validation")
            IN shown' = r.shown /\ uexc' = r.exc
    /\ upc' = "idle"
    /\ pc' = "idle"
    /\ UNCHANGED <<store, data, skip_duplicate, checks, passed, amount, tax,
                   tried, lookups, exc, udata, exists, last_receipt,
                   last_report>>

NextApp ==
    \/ UploadExtract
    \/ UploadSummary
    \/ UploadDuplicateCheck
    \/ UploadValidate
    \/ UploadStoreReport
    \/ UploadSave
    \/ UploadMessage
    \/ ViewCurrent
    \/ StoredSkip
    \/ StoredRun
    \/ RequiredFields
    \/ DateFormat
    \/ CoerceAmount
    \/ CoerceTax
    \/ TotalAmount
    \/ TaxRate
    \/ DuplicateDetection
    \/ Return
    \/ StoredRender

\* the script runs of the user interface, one at a time
SpecApp == Init /\ [][NextApp]_vars

\* ================================================================ claims
Names(cs) == [i \in 1..Len(cs) |-> cs[i].name]
AllNames ==
    <<"required_fields", "date_format", "total_amount", "tax_rate",
      "is_duplicate">>
IsMissing(f) == data[f].t \in {"absent", "None"}
AnyMissing == \E i \in 1..5 : IsMissing(required[i])
AllPresent == ~AnyMissing
Range(seq) == {seq[i] : i \in 1..Len(seq)}
InCall == pc # "idle"

\* C1: a record with a required field absent or null gets a report of the
\* one check required_fields, failed, whose missing list is exactly the
\* absent or null fields, with passed = false; no later check runs and the
\* duplicate lookup is not called.
C1_MissingShortCircuits ==
    (InCall /\ AnyMissing) =>
        /\ pc \in {"required", "done"}
        /\ lookups = <<>>
        /\ tried = <<>>
        /\ Returned =>
              /\ Len(report.checks) = 1
              /\ report.checks[1].name = "required_fields"
              /\ report.checks[1].pass = FALSE
              /\ report.checks[1].key = "missing"
              /\ Range(report.checks[1].val)
                    = {f \in Range(required) : IsMissing(f)}
              /\ Len(report.checks[1].val)
                    = Cardinality(Range(report.checks[1].val))
              /\ report.passed = FALSE

C1_Witness ==
    /\ Returned
    /\ data.tax.t = "None"
    /\ data.vendor.t = "absent"
    /\ data.bill_id.t = "str"
    /\ checks[1].val = <<"vendor", "tax">>

\* C2: a record with the five required fields present and not null (an empty
\* string and a zero are present) gets a report whose checks are
\* required_fields (passed), date_format, total_amount, tax_rate and
\* is_duplicate, in that order, whatever checks failed.
C2_FiveChecksInOrder ==
    (Returned /\ AllPresent) =>
        /\ Names(report.checks) = AllNames
        /\ report.checks[1].pass = TRUE

C2_Witness ==
    /\ Returned
    /\ data.vendor = S(<<>>)
    /\ data.amount = PyInt(0)
    /\ data.date = S(<<>>)
    /\ Len(checks) = 5
    /\ ~checks[2].pass
    /\ ~checks[3].pass

\* C3: in every returned report, passed is the conjunction of the pass flags
\* of the checks in the report.
C3_PassedIsConjunction ==
    Returned =>
        (report.passed <=> \A i \in 1..Len(report.checks) : report.checks[i].pass)

C3_Witness ==
    /\ Returned
    /\ Len(checks) = 5
    /\ checks[2].pass /\ checks[3].pass /\ ~checks[4].pass /\ checks[5].pass
    /\ ~passed

\* the rate tax / c of a candidate c > 0 is within [0.03, 0.13]
Qualifies(c) ==
    /\ tax.k = "fin"
    /\ c.k = "fin"
    /\ c.v > 0
    /\ 3 * c.v <= 100 * tax.v
    /\ 100 * tax.v <= 13 * c.v

TaxRateDone == InCall /\ Len(checks) >= 4
FirstCandidate == FSub(amount, tax)
SecondCandidate == amount

\* C4: when the coerced tax is not zero, tax_rate passes exactly when one of
\* the candidates amount - tax, amount is > 0 with a rate within
\* [0.03, 0.13]; a candidate <= 0 is never tried, and the details report the
\* first candidate, in that order, that qualifies, with its rate.
C4_FirstQualifyingCandidate ==
    (TaxRateDone /\ ~(tax.k = "fin" /\ tax.v = 0)) =>
        /\ checks[4].name = "tax_rate"
        /\ checks[4].pass <=> (Qualifies(FirstCandidate) \/ Qualifies(SecondCandidate))
        /\ \A i \in 1..Len(tried) : ~(tried[i].k = "fin" /\ tried[i].v <= 0)
        /\ checks[4].pass =>
              LET used == IF Qualifies(FirstCandidate) THEN FirstCandidate
                          ELSE SecondCandidate
              IN checks[4].val = Msg("Tax rate OK", <<<<tax, used>>, used>>)

C4_Witness ==
    /\ Returned
    /\ amount = Fin(1000)
    /\ tax = Fin(80)
    /\ Qualifies(FirstCandidate)
    /\ Qualifies(SecondCandidate)
    /\ checks[4].pass
    /\ checks[4].val.args[2] = Fin(920)

\* C5: when the coerced tax is 0.0, tax_rate passes with "No tax applied"
\* whatever the amount, and no candidate subtotal is tried.
C5_ZeroTaxPasses ==
    (TaxRateDone /\ tax.k = "fin" /\ tax.v = 0) =>
        /\ checks[4] = Check("tax_rate", TRUE, "details",
                             Msg("No tax applied", <<>>))
        /\ tried = <<>>

C5_Witness ==
    /\ Returned
    /\ Len(checks) = 5
    /\ data.tax = PyInt(0)
    /\ amount = Fin(-1)
    /\ checks[4].pass
    /\ ~checks[3].pass

DateDone == InCall /\ Len(checks) >= 2

\* a string of the form YYYY-MM-DD, four, two and two digits, that names a
\* date of the calendar
StrictYmd(chars) ==
    /\ Len(chars) = 10
    /\ \A i \in {1, 2, 3, 4, 6, 7, 9, 10} : IsDigit(chars[i])
    /\ chars[5] = "-"
    /\ chars[8] = "-"
    /\ LET y == DecimalValue(SubSeq(chars, 1, 4))
           m == DecimalValue(SubSeq(chars, 6, 7))
           d == DecimalValue(SubSeq(chars, 9, 10))
       IN /\ y >= 1
          /\ m \in 1..12
          /\ d \in 1..DaysInMonth(y, m)

\* C6: date_format passes exactly when the date is of the form YYYY-MM-DD
\* with a 4-digit year, a 2-digit month and a 2-digit day; any other value
\* fails it with the raw value in the details, the report is then not
\* passed, and the later checks still run.
C6_StrictDateFormat ==
    DateDone =>
        /\ checks[2].name = "date_format"
        /\ checks[2].pass <=> StrictYmd(data.date.s)
        /\ ~checks[2].pass =>
              /\ checks[2].val = Msg("Invalid date format: ", <<data.date>>)
              /\ Returned => (~report.passed /\ Names(report.checks) = AllNames)

TotalDone == InCall /\ Len(checks) >= 3

\* C7: total_amount passes exactly when the coerced amount is > 0; a zero, a
\* negative or an unparseable amount fails it with "Invalid amount value"
\* and the report is not passed.
C7_TotalAmountPositive ==
    TotalDone =>
        /\ checks[3].name = "total_amount"
        /\ checks[3].pass <=>
              (amount.k = "inf" \/ (amount.k = "fin" /\ amount.v >= 1))
        /\ data.amount.t = "int" => (checks[3].pass <=> data.amount.v > 0)
        /\ data.amount \in {S(<<"a", "b", "c">>), S(<<>>), PyList} =>
              ~checks[3].pass
        /\ ~checks[3].pass =>
              /\ checks[3].key = "details"
              /\ checks[3].val = Msg("Invalid amount value", <<>>)
              /\ Returned => ~report.passed

C7_Witness ==
    /\ Returned
    /\ Len(checks) = 5
    /\ data.amount = S(<<"a", "b", "c">>)
    /\ amount = Fin(0)
    /\ checks[2].pass /\ ~checks[3].pass /\ checks[4].pass /\ checks[5].pass
    /\ ~passed

DuplicateDone == InCall /\ Len(checks) >= 5
Stored(bill_id) == \E i \in 1..Len(store) : store[i].bill_id = bill_id

\* C8: in a call with skip_duplicate = true, receipt_exists is never called
\* and is_duplicate passes with "Duplicate check skipped", whatever the
\* store holds.
C8_SkipNeverLooksUp ==
    (InCall /\ skip_duplicate) =>
        /\ lookups = <<>>
        /\ DuplicateDone =>
              checks[5] = Check("is_duplicate", TRUE, "details",
                                Msg("Duplicate check skipped", <<>>))

C8_Witness ==
    /\ Returned
    /\ skip_duplicate
    /\ Stored(data.bill_id)
    /\ Len(checks) = 5
    /\ checks[5].pass
    /\ passed

\* C9: in a call with skip_duplicate = false, receipt_exists is called at
\* most once, with the bill_id of the record; when it returns true
\* is_duplicate fails and the report is not passed even if every other check
\* passed; when it returns false is_duplicate passes.
C9_DuplicateFails ==
    (InCall /\ ~skip_duplicate) =>
        /\ Len(lookups) <= 1
        /\ \A i \in 1..Len(lookups) : lookups[i] = data.bill_id
        /\ DuplicateDone =>
              /\ checks[5].name = "is_duplicate"
              /\ lookups = <<data.bill_id>>
              /\ checks[5].pass <=> ~Stored(data.bill_id)
              /\ (Returned /\ Stored(data.bill_id)) => ~report.passed

C9_Witness ==
    /\ Returned
    /\ ~skip_duplicate
    /\ Stored(data.bill_id)
    /\ Len(checks) = 5
    /\ \A i \in 1..4 : checks[i].pass
    /\ ~checks[5].pass
    /\ ~passed

\* a present, non-null value that float() does not convert
Unconvertible(value) ==
    /\ value.t \notin {"absent", "None"}
    /\ Float(value).exc # "none"

\* C10: an amount or a tax that cannot be converted is taken as 0.0 without
\* a check entry of its own, and the record then fails a check (total_amount
\* or tax_rate): the report of a record with an unconvertible amount or an
\* unconvertible tax is never passed.
C10_UnconvertibleNeverPasses ==
    (Returned /\ AllPresent
        /\ (Unconvertible(data.amount) \/ Unconvertible(data.tax))) =>
        /\ Names(report.checks) = AllNames
        /\ Unconvertible(data.amount) => amount = Fin(0)
        /\ Unconvertible(data.tax) => tax = Fin(0)
        /\ ~report.passed

\* C11: validate_receipt returns a report for every record and never lets a
\* raised error reach its caller; an exception of the conversion of amount
\* or tax shows only as a failed check or as the value 0.0.
C11_NeverRaises ==
    /\ pc # "raised"
    /\ exc = "none"

\* C12: every entry of checks, passed or failed, of each of the five names,
\* carries a boolean pass and either a details message or a missing list.
C12_DetailsOrMissing ==
    InCall =>
        \A i \in 1..Len(checks) :
            /\ checks[i].name \in Range(AllNames)
            /\ checks[i].pass \in BOOLEAN
            /\ checks[i].key \in {"details", "missing"}

\* C13: the callers of validate_receipt read a report only through keys it
\* has: the rendering of the report the upload left in the session, and the
\* rendering of the report of a stored receipt validated with
\* skip_duplicate = True, reach their final passed or failed message and
\* never raise KeyError for a key of the report.
C13_CallersReadReportKeys ==
    /\ uexc \notin {"KeyError: 'results'", "KeyError: 'passed'"}
    /\ (upc = "v_stored" /\ last_receipt # <<>> /\ last_report # <<>>) =>
          shown \in {"Receipt passed validation", "Receipt failed validation"}

UploadPast118 == upc \in {"u_validate", "u_call", "u_save", "u_message"}

\* C14: in the upload, save_receipt(data) is reached only after
\* receipt_exists(data["bill_id"]) returned false, and it is reached when the
\* validation passed and when it failed; so, the uploads running one at a
\* time, the store never holds two receipts with the same bill_id, and the
\* is_duplicate check of the upload's call of validate_receipt passes.
C14_UploadKeepsBillIdsUnique ==
    /\ UploadPast118 => exists = FALSE
    /\ upc \in {"u_validate", "u_call", "u_save"} =>
          \A i \in 1..Len(store) : store[i].bill_id # udata.bill_id
    /\ upc = "u_message" => store[Len(store)] = udata
    /\ shown \in {"validation_passed_save", "validation_failed"} =>
          \E i \in 1..Len(store) : store[i] = udata
    /\ \A i, j \in 1..Len(store) :
          i # j => store[i].bill_id # store[j].bill_id
    /\ (upc = "u_call" /\ Len(checks) >= 5) =>
          /\ checks[5].name = "is_duplicate"
          /\ checks[5].pass

C14_Witness ==
    /\ upc = "idle"
    /\ shown = "validation_failed"
    /\ Len(store) = 2
    /\ store[2] = udata
    /\ store[1].bill_id # store[2].bill_id
    /\ last_report = <<report>>
    /\ Len(checks) = 5
    /\ ~checks[3].pass
    /\ checks[5].pass

====
